---------------------------- MODULE Spec2Model ----------------------------
(***************************************************************************)
(* Model of the five Proxy wrappers of src/unnamed/part_000:               *)
(*   createValidatedProxy, getProxiedArray, createLoggedObj,               *)
(*   createChainableProxy and createObservable.                            *)
(* Every wrapper has its own variables and its own specification           *)
(* (SpecValidation, SpecArray, SpecLog, SpecChain, SpecObs): the wrappers  *)
(* share no state in the source.                                           *)
(***************************************************************************)
EXTENDS Integers, Sequences, FiniteSets, TLC

VARIABLES
    vObj,       \* createValidatedProxy: own properties of the target
    vBefore,    \* history: vObj before the last operation
    vRes,       \* what the last get/set on validatedUser did
    aArr,       \* getProxiedArray: the target array
    aRes,       \* what the last operation on proxiedArray returned
    lValue,     \* createLoggedObj: the target's mutable field
    lEvents,    \* console records and delegate executions, in order
    lCalls,     \* history: invocations made through the logged wrapper
    lRes,       \* what the last get/call on the logged wrapper returned
    cValue,     \* createChainableProxy: the ChainableString's value
    cHist,      \* history: the existing mutators called, in order
    cRes,       \* what the last call in the chain returned
    cOut,       \* number of console records written by the chain proxy
    oObj,       \* createObservable: the target object
    oListeners, \* createObservable: the listeners Map
    oRes        \* what the last set/on/get on the observable did

vVars == <<vObj, vBefore, vRes>>
aVars == <<aArr, aRes>>
lVars == <<lValue, lEvents, lCalls, lRes>>
cVars == <<cValue, cHist, cRes, cOut>>
oVars == <<oObj, oListeners, oRes>>
vars == <<vObj, vBefore, vRes, aArr, aRes, lValue, lEvents, lCalls, lRes,
          cValue, cHist, cRes, cOut, oObj, oListeners, oRes>>

(***************************************************************************)
(* JavaScript values of the validation and observable wrappers: a kind and *)
(* a payload.  The payload is always a string, so that the number 25 and   *)
(* the string "25" differ by their kind alone.                             *)
(***************************************************************************)
JSVal(k, p) == [kind |-> k, v |-> p]
Undefined == JSVal("undefined", "undefined")

\* typeof: null is an "object"; every other kind names its own type.
typeOf(val) ==
    IF val.kind = "null" THEN "object" ELSE val.kind

----------------------------------------------------------------------------
(***************************************************************************)
(* EXERCISE 1: createValidatedProxy                                        *)
(***************************************************************************)

\* Properties every object literal inherits (Object.prototype); `in` and
\* member access both walk the prototype chain.
ObjectPrototype == [toString |-> JSVal("function", "Object.prototype.toString")]

\* prop in obj
HasProperty(obj, prop) ==
    prop \in DOMAIN obj \/ prop \in DOMAIN ObjectPrototype

\* obj[prop]
GetMember(obj, prop) ==
    IF prop \in DOMAIN obj THEN obj[prop]
    ELSE IF prop \in DOMAIN ObjectPrototype THEN ObjectPrototype[prop]
    ELSE Undefined

\* obj[prop] = value
PutMember(obj, prop, value) ==
    [p \in DOMAIN obj \cup {prop} |-> IF p = prop THEN value ELSE obj[p]]

\* The object handed to createValidatedProxy.
defaultValues ==
    [name |-> JSVal("string", ""),
     age |-> JSVal("number", "0"),
     isActive |-> JSVal("boolean", "false")]

\* Keys and values the callers of validatedUser try.
VKeys == {"name", "age", "isActive", "invalidProp", "toString"}
VValues ==
    {JSVal("string", ""), JSVal("string", "Alice"), JSVal("string", "25"),
     JSVal("number", "0"), JSVal("number", "25"), JSVal("number", "123"),
     JSVal("boolean", "false"), JSVal("boolean", "true"),
     JSVal("null", "null"), Undefined,
     JSVal("object", "{}"),
     JSVal("function", "f")}

\* The get trap: the value, or the thrown Error.
ValidatedGet(obj, prop) ==
    IF HasProperty(obj, prop)
    THEN [outcome |-> "ok", ret |-> GetMember(obj, prop)]
    ELSE [outcome |-> "UnknownPropertyError", ret |-> Undefined]

\* The type test with the values compared instead of their types.
TypeDiffersStrict(value, currentValue) == value # currentValue

\* The type test of the set trap.
TypeDiffers(value, currentValue) == typeOf(value) # typeOf(currentValue)

\* The set trap with the write made before the type test.
ValidatedSetWriteFirst(obj, prop, value) ==
    IF ~HasProperty(obj, prop)
    THEN [outcome |-> "UnknownPropertyError", obj |-> obj]
    ELSE IF TypeDiffers(value, GetMember(obj, prop))
         THEN [outcome |-> "TypeMismatchError", obj |-> PutMember(obj, prop, value)]
         ELSE [outcome |-> "ok", obj |-> PutMember(obj, prop, value)]

\* The set trap without the test that the property exists.
ValidatedSetOpen(obj, prop, value) ==
    IF TypeDiffers(value, GetMember(obj, prop))
    THEN [outcome |-> "TypeMismatchError", obj |-> obj]
    ELSE [outcome |-> "ok", obj |-> PutMember(obj, prop, value)]

\* The set trap: the outcome and the target afterwards.
ValidatedSet(obj, prop, value) ==
    IF ~HasProperty(obj, prop)
    THEN [outcome |-> "UnknownPropertyError", obj |-> obj]
    ELSE IF TypeDiffers(value, GetMember(obj, prop))
         THEN [outcome |-> "TypeMismatchError", obj |-> obj]
         ELSE [outcome |-> "ok", obj |-> PutMember(obj, prop, value)]

VNoRes == [op |-> "none", key |-> "", value |-> Undefined,
           outcome |-> "ok", ret |-> Undefined]

VInit ==
    /\ vObj = defaultValues
    /\ vBefore = defaultValues
    /\ vRes = VNoRes

\* validatedUser[prop]
VGet(prop) ==
    LET r == ValidatedGet(vObj, prop) IN
    /\ vRes' = [op |-> "get", key |-> prop, value |-> Undefined,
                outcome |-> r.outcome, ret |-> r.ret]
    /\ vBefore' = vObj
    /\ vObj' = vObj

\* validatedUser[prop] = value
VSet(prop, value) ==
    LET r == ValidatedSet(vObj, prop, value) IN
    /\ vRes' = [op |-> "set", key |-> prop, value |-> value,
                outcome |-> r.outcome, ret |-> Undefined]
    /\ vBefore' = vObj
    /\ vObj' = r.obj

VGetStep ==
    /\ \E prop \in VKeys : VGet(prop)
    /\ UNCHANGED <<aVars, lVars, cVars, oVars>>
VSetStep ==
    /\ \E prop \in VKeys, value \in VValues : VSet(prop, value)
    /\ UNCHANGED <<aVars, lVars, cVars, oVars>>

----------------------------------------------------------------------------
(***************************************************************************)
(* EXERCISE 2: getProxiedArray                                             *)
(* A property key is a string; it is modelled as the sequence of its       *)
(* characters so that Number(prop) is computed from the text.              *)
(***************************************************************************)

MaxArrLen == 6     \* pushes stop at this length
MaxKeyLen == 3     \* longest key drawn from KeyAlphabet
MaxIndex == 8      \* integer keys -MaxIndex..MaxIndex are tried

DigitChars == <<"0", "1", "2", "3", "4", "5", "6", "7", "8", "9">>
Digits == {DigitChars[i] : i \in 1..10}
DigitVal(c) == (CHOOSE i \in 1..10 : DigitChars[i] = c) - 1

\* String(i) for an integer i: the key the caller's proxiedArray[i] reaches
\* the get trap with.
RECURSIVE NatToStr(_)
NatToStr(n) ==
    IF n < 10 THEN <<DigitChars[n + 1]>>
    ELSE NatToStr(n \div 10) \o <<DigitChars[(n % 10) + 1]>>
ToStr(i) == IF i < 0 THEN <<"-">> \o NatToStr(-i) ELSE NatToStr(i)

KeyLength == <<"l", "e", "n", "g", "t", "h">>
KeyPush == <<"p", "u", "s", "h">>
KeyAlphabet == {"-", "0", "1", "."}
BlankKeys == {<<" ">>, <<" ", "1">>, <<"-", "1", " ">>, <<" ", ".", "1", " ">>,
              <<"1", " ", "1">>, <<"-", " ", "1">>}
KeyStrings ==
    UNION {[1..n -> KeyAlphabet] : n \in 0..MaxKeyLen}
    \cup BlankKeys
    \cup {ToStr(i) : i \in -MaxIndex..MaxIndex}
    \cup {KeyLength, KeyPush}

\* White space is stripped from both ends before a string is read as a number.
RECURSIVE TrimLeft(_)
TrimLeft(s) ==
    IF s # <<>> /\ Head(s) = " " THEN TrimLeft(Tail(s)) ELSE s
RECURSIVE TrimRight(_)
TrimRight(s) ==
    IF s # <<>> /\ s[Len(s)] = " " THEN TrimRight(SubSeq(s, 1, Len(s) - 1)) ELSE s
Trim(s) == TrimRight(TrimLeft(s))

RECURSIVE DecVal(_)
DecVal(ds) ==
    IF ds = <<>> THEN 0
    ELSE 10 * DecVal(SubSeq(ds, 1, Len(ds) - 1)) + DigitVal(ds[Len(ds)])

NaN == [nan |-> TRUE, neg |-> FALSE, int |-> 0, frac |-> FALSE]
Num(neg, int, frac) == [nan |-> FALSE, neg |-> neg, int |-> int, frac |-> frac]

\* An unsigned decimal literal: digits, digits "." digits?, or "." digits.
UnsignedLiteral(neg, body) ==
    LET dots == {i \in 1..Len(body) : body[i] = "."}
        dot == IF dots = {} THEN Len(body) + 1 ELSE CHOOSE i \in dots : TRUE
        intPart == SubSeq(body, 1, dot - 1)
        fracPart == SubSeq(body, dot + 1, Len(body))
    IN  IF \/ Cardinality(dots) > 1
           \/ \E i \in 1..Len(body) : body[i] \notin Digits \cup {"."}
           \/ intPart = <<>> /\ fracPart = <<>>
        THEN NaN
        ELSE Num(neg, DecVal(intPart),
                 \E i \in 1..Len(fracPart) : fracPart[i] # "0")

\* Number(prop) for a string: the empty and the blank string are 0, a
\* signed decimal literal is its value, anything else is NaN.
StringToNumber(prop) ==
    LET t == Trim(prop) IN
    IF t = <<>> THEN Num(FALSE, 0, FALSE)
    ELSE IF Head(t) = "-" THEN UnsignedLiteral(TRUE, Tail(t))
    ELSE UnsignedLiteral(FALSE, t)

AUndef == [kind |-> "undefined", n |-> 0]
ANum(n) == [kind |-> "number", n |-> n]
AFunc == [kind |-> "function", n |-> 0]

\* The relative index Array.prototype.at works with: the number truncated
\* toward zero.
ToIntegerOrInfinity(num) == IF num.neg THEN 0 - num.int ELSE num.int

\* at() without the translation of a negative index.
ArrayAtNoWrap(array, num) ==
    LET k == ToIntegerOrInfinity(num)
    IN  IF k < 0 \/ k >= Len(array) THEN AUndef ELSE ANum(array[k + 1])

\* array.at(index)
ArrayAt(array, num) ==
    LET rel == ToIntegerOrInfinity(num)
        k == IF rel >= 0 THEN rel ELSE Len(array) + rel
    IN  IF k < 0 \/ k >= Len(array) THEN AUndef ELSE ANum(array[k + 1])

\* A canonical array index: the decimal text of a non-negative integer.
IsArrayIndex(prop) ==
    /\ prop # <<>>
    /\ \A i \in 1..Len(prop) : prop[i] \in Digits
    /\ prop = NatToStr(DecVal(prop))

\* array[prop]: native member access on the raw array.
NativeGet(array, prop) ==
    IF IsArrayIndex(prop)
    THEN IF DecVal(prop) < Len(array) THEN ANum(array[DecVal(prop) + 1]) ELSE AUndef
    ELSE IF prop = KeyLength THEN ANum(Len(array))
    ELSE IF prop = KeyPush THEN AFunc
    ELSE AUndef

\* The test of the get trap that sends a key to native access; every key
\* here is a string, so it is isNaN(Number(prop)).
IsPassThrough(prop) == StringToNumber(prop).nan

\* The get trap.
ProxiedGet(array, prop) ==
    IF IsPassThrough(prop) THEN NativeGet(array, prop)
    ELSE ArrayAt(array, StringToNumber(prop))

\* The arrays handed to getProxiedArray and the values pushed.
arr == <<1, 2, 3, 4, 5>>
InitialArrays == {<< >>, arr}
PushValues == {6}

AInit ==
    /\ aArr \in InitialArrays
    /\ aRes = [op |-> "none", key |-> << >>, arg |-> 0, ret |-> AUndef]

\* proxiedArray[prop]
AGet(prop) ==
    /\ aRes' = [op |-> "get", key |-> prop, arg |-> 0, ret |-> ProxiedGet(aArr, prop)]
    /\ aArr' = aArr

\* proxiedArray.push(v): the get trap hands out the native push, which
\* reads length through the get trap and writes through the wrapper, which
\* has no set trap.
APush(v) ==
    /\ Len(aArr) < MaxArrLen
    /\ ProxiedGet(aArr, KeyPush) = AFunc
    /\ LET len == ProxiedGet(aArr, KeyLength).n IN
       /\ aArr' = [i \in 1..(len + 1) |-> IF i <= len THEN aArr[i] ELSE v]
       /\ aRes' = [op |-> "push", key |-> KeyPush, arg |-> v, ret |-> ANum(len + 1)]

AGetStep ==
    /\ \E prop \in KeyStrings : AGet(prop)
    /\ UNCHANGED <<vVars, lVars, cVars, oVars>>
APushStep ==
    /\ \E v \in PushValues : APush(v)
    /\ UNCHANGED <<vVars, lVars, cVars, oVars>>

----------------------------------------------------------------------------
(***************************************************************************)
(* EXERCISE 3: createLoggedObj                                             *)
(* The target is the calculator of the source with three more members, so  *)
(* that every branch of the wrapper is driven: append returns its receiver *)
(* as ChainableString.append does, fail throws, precision is a plain       *)
(* number.  A string value is the sequence of the pieces appended to it.   *)
(***************************************************************************)

MaxCalls == 2      \* invocations made through the logged wrapper

LNames == {"add", "multiply", "append", "fail", "precision", "missing"}
LFunctions == {"add", "multiply", "append", "fail"}
ArgValues == {2, 3}
LArgs == [1..2 -> ArgValues]

LVal(k, n) == [kind |-> k, n |-> n]
LUndef == LVal("undefined", 0)

\* obj[prop] of the logged target: a function, a number or undefined.
LMember(prop) ==
    IF prop \in LFunctions THEN LVal("function", 0)
    ELSE IF prop = "precision" THEN LVal("number", 2)
    ELSE LUndef

\* val.apply(receiver, args) for a function member: what it returns or
\* that it throws, and the target's field afterwards.
MemberApply(receiver, prop, value, args) ==
    IF prop = "add"
    THEN [outcome |-> "return", ret |-> LVal("number", args[1] + args[2]), value |-> value]
    ELSE IF prop = "multiply"
    THEN [outcome |-> "return", ret |-> LVal("number", args[1] * args[2]), value |-> value]
    ELSE IF prop = "append"
    THEN [outcome |-> "return", ret |-> LVal(receiver, 0), value |-> Append(value, args[1])]
    ELSE [outcome |-> "throw", ret |-> LUndef, value |-> value]

LogRecord(prop, args) == [ev |-> "log", name |-> prop, args |-> args]
ExecRecord(prop, args) == [ev |-> "exec", name |-> prop, args |-> args]

\* The wrapper with the record written after the delegate has returned.
LoggedInvokeLate(events, value, prop, args) ==
    LET r == MemberApply("raw", prop, value, args)
        ran == Append(events, ExecRecord(prop, args))
    IN  [events |-> IF r.outcome = "throw" THEN ran
                    ELSE Append(ran, LogRecord(prop, args)),
         value |-> r.value, outcome |-> r.outcome, ret |-> r.ret]

\* The function the get trap returns for a function member, invoked with
\* args: console.log, then val.apply(obj, args) with the raw target as
\* receiver, whose result is returned.
LoggedInvoke(events, value, prop, args) ==
    LET logged == Append(events, LogRecord(prop, args))
        r == MemberApply("raw", prop, value, args)
    IN  [events |-> Append(logged, ExecRecord(prop, args)),
         value |-> r.value, outcome |-> r.outcome, ret |-> r.ret]

\* The get trap for a member that is not invoked.
LoggedGet(prop) == LMember(prop)

LInit ==
    /\ lValue = << >>
    /\ lEvents = << >>
    /\ lCalls = << >>
    /\ lRes = [op |-> "none", name |-> "", args |-> <<2, 2>>, outcome |-> "return",
               ret |-> LUndef, before |-> << >>, logged |-> 0]

\* loggedObj[prop](...args) for a function member.
LCall(prop, args) ==
    /\ Len(lCalls) < MaxCalls
    /\ LoggedGet(prop).kind = "function"
    /\ LET r == LoggedInvoke(lEvents, lValue, prop, args) IN
       /\ lEvents' = r.events
       /\ lValue' = r.value
       /\ lRes' = [op |-> "call", name |-> prop, args |-> args, outcome |-> r.outcome,
                   ret |-> r.ret, before |-> lValue, logged |-> Len(lEvents)]
    /\ lCalls' = Append(lCalls, [name |-> prop, args |-> args])

\* loggedObj[prop], not invoked.
LRead(prop) ==
    /\ lRes' = [op |-> "get", name |-> prop, args |-> <<2, 2>>, outcome |-> "return",
                ret |-> LoggedGet(prop), before |-> lValue, logged |-> Len(lEvents)]
    /\ UNCHANGED <<lValue, lEvents, lCalls>>

LCallStep ==
    /\ \E prop \in LNames, args \in LArgs : LCall(prop, args)
    /\ UNCHANGED <<vVars, aVars, cVars, oVars>>
LReadStep ==
    /\ \E prop \in LNames : LRead(prop)
    /\ UNCHANGED <<vVars, aVars, cVars, oVars>>

----------------------------------------------------------------------------
(***************************************************************************)
(* EXERCISE 4: ChainableString and createChainableProxy                    *)
(***************************************************************************)

MaxChain == 3      \* existing mutators, and unknown methods, per run

Texts == {" World", ">>> "}
CNames == {"append", "prepend", "toString", "makeUpperCase", "addEmoji", "value"}
initial == <<"Hello">>

CRet(k, s) == [kind |-> k, s |-> s]

\* typeof obj[prop] for a ChainableString.
StringMemberType(prop) ==
    IF prop \in {"append", "prepend", "toString"} THEN "function"
    ELSE IF prop = "value" THEN "string"
    ELSE "undefined"

\* ChainableString's methods, called on receiver: the result and the value.
StringApply(receiver, prop, value, text) ==
    IF prop = "append"
    THEN [ret |-> CRet(receiver, << >>), value |-> value \o <<text>>]
    ELSE IF prop = "prepend"
    THEN [ret |-> CRet(receiver, << >>), value |-> <<text>> \o value]
    ELSE [ret |-> CRet("string", value), value |-> value]

\* The result handed back as it is.
NormalizeNone(result) == result

\* result === obj ? proxy : result
Normalize(result) ==
    IF result.kind = "raw" THEN CRet("proxy", << >>) ELSE result

\* proxy[prop](text): the get trap and the call of what it returns.
ChainedCall(value, out, prop, text) ==
    IF StringMemberType(prop) = "function"
    THEN LET r == StringApply("raw", prop, value, text) IN
         [ret |-> Normalize(r.ret), value |-> r.value, out |-> out]
    ELSE [ret |-> CRet("proxy", << >>), value |-> value, out |-> out + 1]

CInit ==
    /\ cValue = initial
    /\ cHist = << >>
    /\ cOut = 0
    /\ cRes = [name |-> "", text |-> " World", ret |-> CRet("proxy", << >>),
               before |-> initial]

CCall(prop, text) ==
    /\ prop \in {"append", "prepend"} => Len(cHist) < MaxChain
    /\ StringMemberType(prop) # "function" => cOut < MaxChain
    /\ LET r == ChainedCall(cValue, cOut, prop, text) IN
       /\ cValue' = r.value
       /\ cOut' = r.out
       /\ cRes' = [name |-> prop, text |-> text, ret |-> r.ret, before |-> cValue]
    /\ cHist' = IF prop \in {"append", "prepend"}
                THEN Append(cHist, [name |-> prop, text |-> text])
                ELSE cHist

CCallStep ==
    /\ \E prop \in CNames, text \in Texts : CCall(prop, text)
    /\ UNCHANGED <<vVars, aVars, lVars, oVars>>

----------------------------------------------------------------------------
(***************************************************************************)
(* Observable objects: createObservable                                    *)
(* A listener is known by its name; what it does when called is its own    *)
(* business, except that "bad" throws.                                     *)
(***************************************************************************)

MaxListeners == 3  \* registrations made in one run

OKeys == {"name", "age"}
OValues == {JSVal("number", "40"), JSVal("string", "Bob")}
Callbacks == {"cb1", "cb2", "bad"}
Throws(callback) == callback = "bad"

\* The object handed to createObservable.
user == [name |-> JSVal("string", "Alice"), age |-> JSVal("number", "30")]

\* listeners.get(key): the array, or an empty one for undefined.
ListenersGet(listeners, key) ==
    IF key \in DOMAIN listeners THEN listeners[key] ELSE << >>

Invocation(callback, newVal, oldVal, seen) ==
    [cb |-> callback, newVal |-> newVal, oldVal |-> oldVal, seen |-> seen]

\* forEach with every listener's failure caught, and rethrown at the end.
RECURSIVE ForEachIsolated(_, _, _, _, _)
ForEachIsolated(propListeners, i, newVal, oldVal, seen) ==
    IF i > Len(propListeners) THEN [calls |-> << >>, outcome |-> "ok"]
    ELSE LET call == Invocation(propListeners[i], newVal, oldVal, seen)
             rest == ForEachIsolated(propListeners, i + 1, newVal, oldVal, seen)
         IN  [calls |-> <<call>> \o rest.calls,
              outcome |-> IF Throws(propListeners[i]) THEN "throw" ELSE rest.outcome]

\* propListeners.forEach(callback => callback(newVal, oldVal)) from the
\* i-th listener on: the invocations made, in order, and whether one threw.
\* seen is what the target holds under the property while they run.
RECURSIVE ForEach(_, _, _, _, _)
ForEach(propListeners, i, newVal, oldVal, seen) ==
    IF i > Len(propListeners) THEN [calls |-> << >>, outcome |-> "ok"]
    ELSE LET call == Invocation(propListeners[i], newVal, oldVal, seen) IN
         IF Throws(propListeners[i])
         THEN [calls |-> <<call>>, outcome |-> "throw"]
         ELSE LET rest == ForEach(propListeners, i + 1, newVal, oldVal, seen) IN
              [calls |-> <<call>> \o rest.calls, outcome |-> rest.outcome]

\* The set trap with the listeners called with (oldVal, newVal).
ObservableSetSwapped(obj, listeners, prop, newVal) ==
    LET oldVal == GetMember(obj, prop)
        written == PutMember(obj, prop, newVal)
        n == ForEach(ListenersGet(listeners, prop), 1, oldVal, newVal,
                     GetMember(written, prop))
    IN  [obj |-> written, oldVal |-> oldVal, calls |-> n.calls, outcome |-> n.outcome]

\* The set trap.
ObservableSet(obj, listeners, prop, newVal) ==
    LET oldVal == GetMember(obj, prop)
        written == PutMember(obj, prop, newVal)
        n == ForEach(ListenersGet(listeners, prop), 1, newVal, oldVal,
                     GetMember(written, prop))
    IN  [obj |-> written, oldVal |-> oldVal, calls |-> n.calls, outcome |-> n.outcome]

\* The function the get trap returns for "on".
ObservableOn(listeners, propName, callback) ==
    [k \in DOMAIN listeners \cup {propName} |->
        IF k = propName THEN Append(ListenersGet(listeners, propName), callback)
        ELSE listeners[k]]

\* The get trap.
ObservableGet(obj, prop) ==
    IF prop = "on" THEN JSVal("function", "on") ELSE GetMember(obj, prop)

NoListeners == [k \in {} |-> << >>]

\* Number of registrations the Map holds.
Registered(listeners) ==
    Len(ListenersGet(listeners, "name")) + Len(ListenersGet(listeners, "age"))

ONoRes == [op |-> "none", key |-> "", newVal |-> Undefined, oldVal |-> Undefined,
           calls |-> << >>, outcome |-> "ok", before |-> user,
           registry |-> NoListeners]

OInit ==
    /\ oObj = user
    /\ oListeners = NoListeners
    /\ oRes = ONoRes

\* user[prop] = newVal
OSet(prop, newVal) ==
    LET r == ObservableSet(oObj, oListeners, prop, newVal) IN
    /\ oObj' = r.obj
    /\ oListeners' = oListeners
    /\ oRes' = [op |-> "set", key |-> prop, newVal |-> newVal, oldVal |-> r.oldVal,
                calls |-> r.calls, outcome |-> r.outcome, before |-> oObj,
                registry |-> oListeners]

\* user.on(propName, callback)
OOn(propName, callback) ==
    /\ ObservableGet(oObj, "on").kind = "function"
    /\ Registered(oListeners) < MaxListeners
    /\ oListeners' = ObservableOn(oListeners, propName, callback)
    /\ oObj' = oObj
    /\ oRes' = [ONoRes EXCEPT !.op = "on", !.key = propName, !.before = oObj,
                              !.registry = oListeners]

\* user[prop]
OGet(prop) ==
    /\ oRes' = [ONoRes EXCEPT !.op = "get", !.key = prop,
                              !.newVal = ObservableGet(oObj, prop),
                              !.before = oObj, !.registry = oListeners]
    /\ UNCHANGED <<oObj, oListeners>>

OSetStep ==
    /\ \E prop \in OKeys, newVal \in OValues : OSet(prop, newVal)
    /\ UNCHANGED <<vVars, aVars, lVars, cVars>>
OOnStep ==
    /\ \E propName \in OKeys, callback \in Callbacks : OOn(propName, callback)
    /\ UNCHANGED <<vVars, aVars, lVars, cVars>>
OGetStep ==
    /\ \E prop \in OKeys \cup {"on"} : OGet(prop)
    /\ UNCHANGED <<vVars, aVars, lVars, cVars>>

----------------------------------------------------------------------------
(***************************************************************************)
(* The specifications: one per wrapper.                                    *)
(***************************************************************************)

Init == VInit /\ AInit /\ LInit /\ CInit /\ OInit

NextValidation == VGetStep \/ VSetStep
NextArray == AGetStep \/ APushStep
NextLog == LCallStep \/ LReadStep
NextChain == CCallStep
NextObs == OSetStep \/ OOnStep \/ OGetStep

SpecValidation == Init /\ [][NextValidation]_vars
SpecArray == Init /\ [][NextArray]_vars
SpecLog == Init /\ [][NextLog]_vars
SpecChain == Init /\ [][NextChain]_vars
SpecObs == Init /\ [][NextObs]_vars

----------------------------------------------------------------------------
(***************************************************************************)
(* The properties.                                                         *)
(***************************************************************************)

VUnknown == "UnknownPropertyError"
VMismatch == "TypeMismatchError"

\* C1: a set of a key of the initial container with a value whose typeof
\* equals the typeof of the value stored under the key succeeds, and a get
\* of the key right after it returns exactly that value, whatever gets and
\* sets, accepted or rejected, came before.
C1_RoundTrip ==
    (/\ vRes.op = "set"
     /\ vRes.key \in DOMAIN defaultValues
     /\ typeOf(vRes.value) = typeOf(GetMember(vBefore, vRes.key)))
    => /\ vRes.outcome = "ok"
       /\ ValidatedGet(vObj, vRes.key) = [outcome |-> "ok", ret |-> vRes.value]

C1_Witness ==
    /\ vRes.op = "set" /\ vRes.key = "age" /\ vRes.outcome = "ok"
    /\ vRes.value = JSVal("number", "25")
    /\ vBefore.age = JSVal("number", "123")
    /\ vObj.age = JSVal("number", "25")
    /\ vObj.name = JSVal("string", "Alice")

\* C2: a set of a present key with a value of another typeof fails with
\* the type error and changes no stored value; so every key keeps the
\* typeof it had in the initial container.
C2_TypeRejection ==
    /\ (/\ vRes.op = "set"
        /\ HasProperty(vBefore, vRes.key)
        /\ typeOf(vRes.value) # typeOf(GetMember(vBefore, vRes.key)))
       => (vRes.outcome = VMismatch /\ vObj = vBefore)
    /\ \A k \in VKeys :
          HasProperty(defaultValues, k)
          => typeOf(GetMember(vObj, k)) = typeOf(GetMember(defaultValues, k))

C2_Witness ==
    /\ vRes.op = "set" /\ vRes.key = "age" /\ vRes.value = JSVal("string", "25")
    /\ vRes.outcome = VMismatch
    /\ vObj.age = JSVal("number", "25")

C4_NegativeIndex ==
    LET len == Len(aArr) IN
    /\ \A i \in -MaxIndex..MaxIndex :
          (aRes.op = "get" /\ aRes.key = ToStr(i))
          => aRes.ret = IF 0 <= i /\ i < len THEN ANum(aArr[i + 1])
                        ELSE IF -len <= i /\ i < 0 THEN ANum(aArr[len + i + 1])
                        ELSE AUndef
    /\ (aRes.op = "get" /\ aRes.key = KeyLength) => aRes.ret = ANum(len)
    /\ aRes.op = "push"
       => /\ ProxiedGet(aArr, ToStr(-1)) = ANum(aRes.arg)
          /\ ProxiedGet(aArr, KeyLength) = aRes.ret

C4_Witness ==
    /\ aArr = arr \o <<6>>
    /\ aRes.op = "get" /\ aRes.key = <<"-", "2">> /\ aRes.ret = ANum(5)

\* A key that reads as an integer: an optional minus sign, then digits.
IsIntegerString(prop) ==
    LET body == IF prop # << >> /\ Head(prop) = "-" THEN Tail(prop) ELSE prop IN
    /\ body # << >>
    /\ \A i \in 1..Len(body) : body[i] \in Digits

\* C10: for every key that does not read as an integer (a name, a
\* fraction, the empty string), a get through the wrapper returns what
\* native member access on the raw array returns for the key.
C10_PassThrough ==
    (aRes.op = "get" /\ ~IsIntegerString(aRes.key))
    => aRes.ret = NativeGet(aArr, aRes.key)

Logs(events) == SelectSeq(events, LAMBDA e : e.ev = "log")

\* C5: every invocation of a function member through the wrapper writes
\* exactly one record with the name and the arguments, before the original
\* starts to run (also when the original then throws); the caller gets what
\* the original returns for these arguments with the raw target as
\* receiver.  A member that is no function is returned as it is and writes
\* no record.
C5_CallLogging ==
    /\ Logs(lEvents) = [i \in 1..Len(lCalls) |-> LogRecord(lCalls[i].name, lCalls[i].args)]
    /\ \A j \in 1..Len(lEvents) :
          lEvents[j].ev = "exec"
          => (j > 1 /\ lEvents[j - 1] = LogRecord(lEvents[j].name, lEvents[j].args))
    /\ lRes.op = "call"
       => LET o == MemberApply("raw", lRes.name, lRes.before, lRes.args) IN
          /\ lRes.outcome = o.outcome
          /\ lRes.ret = o.ret
          /\ Len(lEvents) = lRes.logged + 2
          /\ lEvents[lRes.logged + 1] = LogRecord(lRes.name, lRes.args)
    /\ (lRes.op = "get" /\ LMember(lRes.name).kind # "function")
       => (lRes.ret = LMember(lRes.name) /\ Len(lEvents) = lRes.logged)

C5_Witness ==
    /\ lRes.op = "call" /\ lRes.name = "add" /\ lRes.args = <<2, 3>>
    /\ lRes.ret = LVal("number", 5)
    /\ lCalls = <<[name |-> "fail", args |-> <<2, 2>>], [name |-> "add", args |-> <<2, 3>>]>>
    /\ Len(Logs(lEvents)) = 2

\* C8: no get and no call made on a wrapper returns the raw container; a
\* wrapped method that returns its receiver gives the caller the wrapper.
C8_NoRawReference ==
    /\ lRes.ret.kind # "raw"
    /\ cRes.ret.kind # "raw"

RECURSIVE Replay(_, _)
Replay(value, hist) ==
    IF hist = << >> THEN value
    ELSE Replay(StringApply("raw", Head(hist).name, value, Head(hist).text).value,
                Tail(hist))

\* C6: in a chain of existing receiver-returning mutators and of methods
\* that do not exist, every call returns the wrapper, a call of a method
\* that does not exist leaves the value as it was, and the value is the one
\* the existing mutators alone produce, called in the same order on the
\* raw object.
C6_Chaining ==
    /\ cValue = Replay(initial, cHist)
    /\ cRes.name \in {"append", "prepend", "makeUpperCase", "addEmoji"}
       => cRes.ret = CRet("proxy", << >>)
    /\ cRes.name \in {"makeUpperCase", "addEmoji"} => cValue = cRes.before

C6_Witness ==
    /\ cHist = <<[name |-> "append", text |-> " World"],
                 [name |-> "prepend", text |-> ">>> "]>>
    /\ cOut = 2
    /\ cRes.name = "prepend"
    /\ cValue = <<">>> ", "Hello", " World">>

\* The listeners of the written key when the last set began, and the
\* invocation the i-th of them is due.
OListenersOfSet == ListenersGet(oRes.registry, oRes.key)
ODue(i) ==
    Invocation(OListenersOfSet[i], oRes.newVal, GetMember(oRes.before, oRes.key),
               oRes.newVal)

\* C7 as stated: a set commits the value and then calls every listener
\* registered for the key, once per registration, in registration order,
\* with (newVal, oldVal), and no listener of another key.
C7_AllListenersNotified ==
    oRes.op = "set"
    => /\ GetMember(oObj, oRes.key) = oRes.newVal
       /\ Len(oRes.calls) = Len(OListenersOfSet)
       /\ \A i \in 1..Len(oRes.calls) : oRes.calls[i] = ODue(i)

\* The listeners a set reaches: all of them, or those up to the first that
\* throws.
OReached ==
    LET bad == {i \in 1..Len(OListenersOfSet) : Throws(OListenersOfSet[i])} IN
    IF bad = {} THEN Len(OListenersOfSet)
    ELSE CHOOSE i \in bad : \A j \in bad : i <= j

\* C7, amended: a set commits the value and then calls the listeners
\* registered for the key, once per registration, in registration order,
\* with (newVal, oldVal), up to and including the first listener that
\* throws: all of them when none throws.  No listener of another key is
\* called, and the value is committed when each listener runs.
C7_ListenersNotifiedInOrder ==
    oRes.op = "set"
    => /\ GetMember(oObj, oRes.key) = oRes.newVal
       /\ oRes.oldVal = GetMember(oRes.before, oRes.key)
       /\ Len(oRes.calls) = OReached
       /\ \A i \in 1..Len(oRes.calls) : oRes.calls[i] = ODue(i)

C7_Witness ==
    /\ oRes.op = "set" /\ oRes.key = "age" /\ oRes.outcome = "ok"
    /\ oRes.registry = [age |-> <<"cb1", "cb2">>, name |-> <<"cb2">>]
    /\ oRes.calls = <<Invocation("cb1", JSVal("number", "40"), JSVal("number", "30"),
                                 JSVal("number", "40")),
                      Invocation("cb2", JSVal("number", "40"), JSVal("number", "30"),
                                 JSVal("number", "40"))>>

\* C9: when the k-th listener of the key throws during a set, the set
\* throws, the listeners before it have each been called once, those after
\* it are not called, the container holds the new value and the registry
\* is as it was.
C9_ListenerFailure ==
    /\ (oRes.op = "set" /\ \E i \in 1..Len(OListenersOfSet) : Throws(OListenersOfSet[i]))
       => oRes.outcome = "throw"
    /\ (oRes.op = "set" /\ oRes.outcome = "throw")
       => LET k == Len(oRes.calls) IN
          /\ k >= 1 /\ k <= Len(OListenersOfSet)
          /\ Throws(OListenersOfSet[k])
          /\ \A i \in 1..k : oRes.calls[i].cb = OListenersOfSet[i]
          /\ \A i \in 1..(k - 1) : ~Throws(OListenersOfSet[i])
          /\ GetMember(oObj, oRes.key) = oRes.newVal
          /\ oListeners = oRes.registry

C9_Witness ==
    /\ oRes.op = "set" /\ oRes.key = "age" /\ oRes.outcome = "throw"
    /\ oRes.registry = [age |-> <<"cb1", "bad", "cb2">>]
    /\ Len(oRes.calls) = 2
    /\ oObj.age = JSVal("string", "Bob")

=============================================================================
